---- MODULE Spec2Model ----
\* Model of package otelwrap (src/otelwrap.go): span handles, the five span
\* starters with their call-site naming, and the Export/Import propagation
\* adapter. Go strings are sequences of characters, so that formatting
\* (%q, %d, %s), strings.Split and strings.Join are computed.
EXTENDS Integers, Sequences, FiniteSets, TLC

VARIABLES
  toolchain,  \* the Go release the program was built with
  propagator, \* the process-wide otel.GetTextMapPropagator()
  spans,      \* spans started on `provider`, in order of provider.Start calls
  handles,    \* every *Span of the process; handles[1] is the package's noopSpan
  made,       \* history: how handles[h] was made, with the inputs of that call
  provLog,    \* calls received by provider spans (AddEvent, RecordError, End)
  calls,      \* history: method calls made on handles, in order
  panicked,   \* a method call dereferenced a nil trace.Span
  exported,   \* history: the last Export call, its input and the map returned
  imported    \* history: the last Import call, its inputs and the context returned

vars == <<toolchain, propagator, spans, handles, made, provLog, calls, panicked, exported, imported>>

\* ---------------------------------------------------------------- bounds

MaxHandles == 2
MaxCalls == 2
MaxParams == 2

\* ---------------------------------------------------------------- strings

\* A Go string is the sequence of its characters, each an integer: the code
\* point of a rune, or -b for a byte b that is not part of valid UTF-8 (one
\* that decodes to utf8.RuneError with width 1). Str writes a string of
\* printable ASCII characters.
ASCIILow ==
  <<
    " ", "!", "\"", "#", "$", "%", "&", "'", "(", ")", "*", "+", ",", "-", ".", "/", "0", "1",
    "2", "3", "4", "5", "6", "7", "8", "9", ":", ";", "<", "=", ">", "?", "@", "A", "B", "C",
    "D", "E", "F", "G", "H", "I", "J", "K", "L", "M", "N", "O", "P", "Q", "R", "S", "T", "U",
    "V", "W", "X", "Y", "Z", "[", "\\", "]", "^", "_"
  >>

ASCIIHigh ==
  <<
    "a", "b", "c", "d", "e", "f", "g", "h", "i", "j", "k", "l", "m", "n", "o", "p", "q", "r",
    "s", "t", "u", "v", "w", "x", "y", "z", "{", "|", "}", "~"
  >>

\* the code point of a printable ASCII character: U+0020 to U+005F in
\* ASCIILow, U+0061 to U+007E in ASCIIHigh
ASCII ==
  [ch \in {ASCIILow[i] : i \in DOMAIN ASCIILow} \cup {ASCIIHigh[i] : i \in DOMAIN ASCIIHigh} |->
    IF \E i \in DOMAIN ASCIILow : ASCIILow[i] = ch
    THEN 31 + (CHOOSE i \in DOMAIN ASCIILow : ASCIILow[i] = ch)
    ELSE 96 + (CHOOSE i \in DOMAIN ASCIIHigh : ASCIIHigh[i] = ch)]

Str(text) == [i \in 1..Len(text) |-> ASCII[text[i]]]

RECURSIVE Concat(_)
Concat(ss) == IF ss = <<>> THEN <<>> ELSE Head(ss) \o Concat(Tail(ss))

\* strings.Join(parts, sep)
RECURSIVE Join(_, _)
Join(parts, sep) ==
  IF parts = <<>> THEN <<>>
  ELSE IF Len(parts) = 1 THEN parts[1]
  ELSE parts[1] \o sep \o Join(Tail(parts), sep)

\* strings.Split(s, sep) for a one-character sep: the pieces between the
\* separators, an empty s giving one empty piece.
RECURSIVE SplitAcc(_, _, _)
SplitAcc(s, sep, cur) ==
  IF s = <<>> THEN <<cur>>
  ELSE IF Head(s) = sep THEN <<cur>> \o SplitAcc(Tail(s), sep, <<>>)
  ELSE SplitAcc(Tail(s), sep, Append(cur, Head(s)))

Split(s, sep) == SplitAcc(s, sep, <<>>)

DecimalDigits == Str(<<"0", "1", "2", "3", "4", "5", "6", "7", "8", "9">>)
Digit(d) == DecimalDigits[d + 1]

\* fmt's %d of a non-negative int
RECURSIVE FormatInt(_)
FormatInt(n) == IF n < 10 THEN <<Digit(n)>> ELSE Append(FormatInt(n \div 10), Digit(n % 10))

\* The release families whose fmt and strconv differ in what %q writes:
\* Go 1.16 to 1.18 (Unicode 13.0.0 tables, U+007F written \u007f), Go 1.19
\* and 1.20 (Unicode 13.0.0, U+007F written \x7f), Go 1.21 and later
\* (Unicode 15.0.0, U+007F written \x7f).
Toolchains == {"go1.16", "go1.19", "go1.21"}

\* strconv's tables under Unicode 15.0.0: the ranges of code points above
\* U+00FF that are not letters, marks, numbers, punctuation or symbols
NotPrintRanges ==
  {
   <<888, 889>>, <<896, 899>>, <<907, 907>>, <<909, 909>>, <<930, 930>>, <<1328, 1328>>,
   <<1367, 1368>>, <<1419, 1420>>, <<1424, 1424>>, <<1480, 1487>>, <<1515, 1518>>,
   <<1525, 1541>>, <<1564, 1564>>, <<1757, 1757>>, <<1806, 1807>>, <<1867, 1868>>,
   <<1970, 1983>>, <<2043, 2044>>, <<2094, 2095>>, <<2111, 2111>>, <<2140, 2141>>,
   <<2143, 2143>>, <<2155, 2159>>, <<2191, 2199>>, <<2274, 2274>>, <<2436, 2436>>,
   <<2445, 2446>>, <<2449, 2450>>, <<2473, 2473>>, <<2481, 2481>>, <<2483, 2485>>,
   <<2490, 2491>>, <<2501, 2502>>, <<2505, 2506>>, <<2511, 2518>>, <<2520, 2523>>,
   <<2526, 2526>>, <<2532, 2533>>, <<2559, 2560>>, <<2564, 2564>>, <<2571, 2574>>,
   <<2577, 2578>>, <<2601, 2601>>, <<2609, 2609>>, <<2612, 2612>>, <<2615, 2615>>,
   <<2618, 2619>>, <<2621, 2621>>, <<2627, 2630>>, <<2633, 2634>>, <<2638, 2640>>,
   <<2642, 2648>>, <<2653, 2653>>, <<2655, 2661>>, <<2679, 2688>>, <<2692, 2692>>,
   <<2702, 2702>>, <<2706, 2706>>, <<2729, 2729>>, <<2737, 2737>>, <<2740, 2740>>,
   <<2746, 2747>>, <<2758, 2758>>, <<2762, 2762>>, <<2766, 2767>>, <<2769, 2783>>,
   <<2788, 2789>>, <<2802, 2808>>, <<2816, 2816>>, <<2820, 2820>>, <<2829, 2830>>,
   <<2833, 2834>>, <<2857, 2857>>, <<2865, 2865>>, <<2868, 2868>>, <<2874, 2875>>,
   <<2885, 2886>>, <<2889, 2890>>, <<2894, 2900>>, <<2904, 2907>>, <<2910, 2910>>,
   <<2916, 2917>>, <<2936, 2945>>, <<2948, 2948>>, <<2955, 2957>>, <<2961, 2961>>,
   <<2966, 2968>>, <<2971, 2971>>, <<2973, 2973>>, <<2976, 2978>>, <<2981, 2983>>,
   <<2987, 2989>>, <<3002, 3005>>, <<3011, 3013>>, <<3017, 3017>>, <<3022, 3023>>,
   <<3025, 3030>>, <<3032, 3045>>, <<3067, 3071>>, <<3085, 3085>>, <<3089, 3089>>,
   <<3113, 3113>>, <<3130, 3131>>, <<3141, 3141>>, <<3145, 3145>>, <<3150, 3156>>,
   <<3159, 3159>>, <<3163, 3164>>, <<3166, 3167>>, <<3172, 3173>>, <<3184, 3190>>,
   <<3213, 3213>>, <<3217, 3217>>, <<3241, 3241>>, <<3252, 3252>>, <<3258, 3259>>,
   <<3269, 3269>>, <<3273, 3273>>, <<3278, 3284>>, <<3287, 3292>>, <<3295, 3295>>,
   <<3300, 3301>>, <<3312, 3312>>, <<3316, 3327>>, <<3341, 3341>>, <<3345, 3345>>,
   <<3397, 3397>>, <<3401, 3401>>, <<3408, 3411>>, <<3428, 3429>>, <<3456, 3456>>,
   <<3460, 3460>>, <<3479, 3481>>, <<3506, 3506>>, <<3516, 3516>>, <<3518, 3519>>,
   <<3527, 3529>>, <<3531, 3534>>, <<3541, 3541>>, <<3543, 3543>>, <<3552, 3557>>,
   <<3568, 3569>>, <<3573, 3584>>, <<3643, 3646>>, <<3676, 3712>>, <<3715, 3715>>,
   <<3717, 3717>>, <<3723, 3723>>, <<3748, 3748>>, <<3750, 3750>>, <<3774, 3775>>,
   <<3781, 3781>>, <<3783, 3783>>, <<3791, 3791>>, <<3802, 3803>>, <<3808, 3839>>,
   <<3912, 3912>>, <<3949, 3952>>, <<3992, 3992>>, <<4029, 4029>>, <<4045, 4045>>,
   <<4059, 4095>>, <<4294, 4294>>, <<4296, 4300>>, <<4302, 4303>>, <<4681, 4681>>,
   <<4686, 4687>>, <<4695, 4695>>, <<4697, 4697>>, <<4702, 4703>>, <<4745, 4745>>,
   <<4750, 4751>>, <<4785, 4785>>, <<4790, 4791>>, <<4799, 4799>>, <<4801, 4801>>,
   <<4806, 4807>>, <<4823, 4823>>, <<4881, 4881>>, <<4886, 4887>>, <<4955, 4956>>,
   <<4989, 4991>>, <<5018, 5023>>, <<5110, 5111>>, <<5118, 5119>>, <<5760, 5760>>,
   <<5789, 5791>>, <<5881, 5887>>, <<5910, 5918>>, <<5943, 5951>>, <<5972, 5983>>,
   <<5997, 5997>>, <<6001, 6001>>, <<6004, 6015>>, <<6110, 6111>>, <<6122, 6127>>,
   <<6138, 6143>>, <<6158, 6158>>, <<6170, 6175>>, <<6265, 6271>>, <<6315, 6319>>,
   <<6390, 6399>>, <<6431, 6431>>, <<6444, 6447>>, <<6460, 6463>>, <<6465, 6467>>,
   <<6510, 6511>>, <<6517, 6527>>, <<6572, 6575>>, <<6602, 6607>>, <<6619, 6621>>,
   <<6684, 6685>>, <<6751, 6751>>, <<6781, 6782>>, <<6794, 6799>>, <<6810, 6815>>,
   <<6830, 6831>>, <<6863, 6911>>, <<6989, 6991>>, <<7039, 7039>>, <<7156, 7163>>,
   <<7224, 7226>>, <<7242, 7244>>, <<7305, 7311>>, <<7355, 7356>>, <<7368, 7375>>,
   <<7419, 7423>>, <<7958, 7959>>, <<7966, 7967>>, <<8006, 8007>>, <<8014, 8015>>,
   <<8024, 8024>>, <<8026, 8026>>, <<8028, 8028>>, <<8030, 8030>>, <<8062, 8063>>,
   <<8117, 8117>>, <<8133, 8133>>, <<8148, 8149>>, <<8156, 8156>>, <<8176, 8177>>,
   <<8181, 8181>>, <<8191, 8207>>, <<8232, 8239>>, <<8287, 8303>>, <<8306, 8307>>,
   <<8335, 8335>>, <<8349, 8351>>, <<8385, 8399>>, <<8433, 8447>>, <<8588, 8591>>,
   <<9255, 9279>>, <<9291, 9311>>, <<11124, 11125>>, <<11158, 11158>>, <<11508, 11512>>,
   <<11558, 11558>>, <<11560, 11564>>, <<11566, 11567>>, <<11624, 11630>>, <<11633, 11646>>,
   <<11671, 11679>>, <<11687, 11687>>, <<11695, 11695>>, <<11703, 11703>>, <<11711, 11711>>,
   <<11719, 11719>>, <<11727, 11727>>, <<11735, 11735>>, <<11743, 11743>>, <<11870, 11903>>,
   <<11930, 11930>>, <<12020, 12031>>, <<12246, 12271>>, <<12284, 12288>>, <<12352, 12352>>,
   <<12439, 12440>>, <<12544, 12548>>, <<12592, 12592>>, <<12687, 12687>>, <<12772, 12783>>,
   <<12831, 12831>>, <<42125, 42127>>, <<42183, 42191>>, <<42540, 42559>>, <<42744, 42751>>,
   <<42955, 42959>>, <<42962, 42962>>, <<42964, 42964>>, <<42970, 42993>>, <<43053, 43055>>,
   <<43066, 43071>>, <<43128, 43135>>, <<43206, 43213>>, <<43226, 43231>>, <<43348, 43358>>,
   <<43389, 43391>>, <<43470, 43470>>, <<43482, 43485>>, <<43519, 43519>>, <<43575, 43583>>,
   <<43598, 43599>>, <<43610, 43611>>, <<43715, 43738>>, <<43767, 43776>>, <<43783, 43784>>,
   <<43791, 43792>>, <<43799, 43807>>, <<43815, 43815>>, <<43823, 43823>>, <<43884, 43887>>,
   <<44014, 44015>>, <<44026, 44031>>, <<55204, 55215>>, <<55239, 55242>>, <<55292, 63743>>,
   <<64110, 64111>>, <<64218, 64255>>, <<64263, 64274>>, <<64280, 64284>>, <<64311, 64311>>,
   <<64317, 64317>>, <<64319, 64319>>, <<64322, 64322>>, <<64325, 64325>>, <<64451, 64466>>,
   <<64912, 64913>>, <<64968, 64974>>, <<64976, 65007>>, <<65050, 65055>>, <<65107, 65107>>,
   <<65127, 65127>>, <<65132, 65135>>, <<65141, 65141>>, <<65277, 65280>>, <<65471, 65473>>,
   <<65480, 65481>>, <<65488, 65489>>, <<65496, 65497>>, <<65501, 65503>>, <<65511, 65511>>,
   <<65519, 65531>>, <<65534, 65535>>, <<65548, 65548>>, <<65575, 65575>>, <<65595, 65595>>,
   <<65598, 65598>>, <<65614, 65615>>, <<65630, 65663>>, <<65787, 65791>>, <<65795, 65798>>,
   <<65844, 65846>>, <<65935, 65935>>, <<65949, 65951>>, <<65953, 65999>>, <<66046, 66175>>,
   <<66205, 66207>>, <<66257, 66271>>, <<66300, 66303>>, <<66340, 66348>>, <<66379, 66383>>,
   <<66427, 66431>>, <<66462, 66462>>, <<66500, 66503>>, <<66518, 66559>>, <<66718, 66719>>,
   <<66730, 66735>>, <<66772, 66775>>, <<66812, 66815>>, <<66856, 66863>>, <<66916, 66926>>,
   <<66939, 66939>>, <<66955, 66955>>, <<66963, 66963>>, <<66966, 66966>>, <<66978, 66978>>,
   <<66994, 66994>>, <<67002, 67002>>, <<67005, 67071>>, <<67383, 67391>>, <<67414, 67423>>,
   <<67432, 67455>>, <<67462, 67462>>, <<67505, 67505>>, <<67515, 67583>>, <<67590, 67591>>,
   <<67593, 67593>>, <<67638, 67638>>, <<67641, 67643>>, <<67645, 67646>>, <<67670, 67670>>,
   <<67743, 67750>>, <<67760, 67807>>, <<67827, 67827>>, <<67830, 67834>>, <<67868, 67870>>,
   <<67898, 67902>>, <<67904, 67967>>, <<68024, 68027>>, <<68048, 68049>>, <<68100, 68100>>,
   <<68103, 68107>>, <<68116, 68116>>, <<68120, 68120>>, <<68150, 68151>>, <<68155, 68158>>,
   <<68169, 68175>>, <<68185, 68191>>, <<68256, 68287>>, <<68327, 68330>>, <<68343, 68351>>,
   <<68406, 68408>>, <<68438, 68439>>, <<68467, 68471>>, <<68498, 68504>>, <<68509, 68520>>,
   <<68528, 68607>>, <<68681, 68735>>, <<68787, 68799>>, <<68851, 68857>>, <<68904, 68911>>,
   <<68922, 69215>>, <<69247, 69247>>, <<69290, 69290>>, <<69294, 69295>>, <<69298, 69372>>,
   <<69416, 69423>>, <<69466, 69487>>, <<69514, 69551>>, <<69580, 69599>>, <<69623, 69631>>,
   <<69710, 69713>>, <<69750, 69758>>, <<69821, 69821>>, <<69827, 69839>>, <<69865, 69871>>,
   <<69882, 69887>>, <<69941, 69941>>, <<69960, 69967>>, <<70007, 70015>>, <<70112, 70112>>,
   <<70133, 70143>>, <<70162, 70162>>, <<70210, 70271>>, <<70279, 70279>>, <<70281, 70281>>,
   <<70286, 70286>>, <<70302, 70302>>, <<70314, 70319>>, <<70379, 70383>>, <<70394, 70399>>,
   <<70404, 70404>>, <<70413, 70414>>, <<70417, 70418>>, <<70441, 70441>>, <<70449, 70449>>,
   <<70452, 70452>>, <<70458, 70458>>, <<70469, 70470>>, <<70473, 70474>>, <<70478, 70479>>,
   <<70481, 70486>>, <<70488, 70492>>, <<70500, 70501>>, <<70509, 70511>>, <<70517, 70655>>,
   <<70748, 70748>>, <<70754, 70783>>, <<70856, 70863>>, <<70874, 71039>>, <<71094, 71095>>,
   <<71134, 71167>>, <<71237, 71247>>, <<71258, 71263>>, <<71277, 71295>>, <<71354, 71359>>,
   <<71370, 71423>>, <<71451, 71452>>, <<71468, 71471>>, <<71495, 71679>>, <<71740, 71839>>,
   <<71923, 71934>>, <<71943, 71944>>, <<71946, 71947>>, <<71956, 71956>>, <<71959, 71959>>,
   <<71990, 71990>>, <<71993, 71994>>, <<72007, 72015>>, <<72026, 72095>>, <<72104, 72105>>,
   <<72152, 72153>>, <<72165, 72191>>, <<72264, 72271>>, <<72355, 72367>>, <<72441, 72447>>,
   <<72458, 72703>>, <<72713, 72713>>, <<72759, 72759>>, <<72774, 72783>>, <<72813, 72815>>,
   <<72848, 72849>>, <<72872, 72872>>, <<72887, 72959>>, <<72967, 72967>>, <<72970, 72970>>,
   <<73015, 73017>>, <<73019, 73019>>, <<73022, 73022>>, <<73032, 73039>>, <<73050, 73055>>,
   <<73062, 73062>>, <<73065, 73065>>, <<73103, 73103>>, <<73106, 73106>>, <<73113, 73119>>,
   <<73130, 73439>>, <<73465, 73471>>, <<73489, 73489>>, <<73531, 73533>>, <<73562, 73647>>,
   <<73649, 73663>>, <<73714, 73726>>, <<74650, 74751>>, <<74863, 74863>>, <<74869, 74879>>,
   <<75076, 77711>>, <<77811, 77823>>, <<78896, 78911>>, <<78934, 82943>>, <<83527, 92159>>,
   <<92729, 92735>>, <<92767, 92767>>, <<92778, 92781>>, <<92863, 92863>>, <<92874, 92879>>,
   <<92910, 92911>>, <<92918, 92927>>, <<92998, 93007>>, <<93018, 93018>>, <<93026, 93026>>,
   <<93048, 93052>>, <<93072, 93759>>, <<93851, 93951>>, <<94027, 94030>>, <<94088, 94094>>,
   <<94112, 94175>>, <<94181, 94191>>, <<94194, 94207>>, <<100344, 100351>>,
   <<101590, 101631>>, <<101641, 110575>>, <<110580, 110580>>, <<110588, 110588>>,
   <<110591, 110591>>, <<110883, 110897>>, <<110899, 110927>>, <<110931, 110932>>,
   <<110934, 110947>>, <<110952, 110959>>, <<111356, 113663>>, <<113771, 113775>>,
   <<113789, 113791>>, <<113801, 113807>>, <<113818, 113819>>, <<113824, 118527>>,
   <<118574, 118575>>, <<118599, 118607>>, <<118724, 118783>>, <<119030, 119039>>,
   <<119079, 119080>>, <<119155, 119162>>, <<119275, 119295>>, <<119366, 119487>>,
   <<119508, 119519>>, <<119540, 119551>>, <<119639, 119647>>, <<119673, 119807>>,
   <<119893, 119893>>, <<119965, 119965>>, <<119968, 119969>>, <<119971, 119972>>,
   <<119975, 119976>>, <<119981, 119981>>, <<119994, 119994>>, <<119996, 119996>>,
   <<120004, 120004>>, <<120070, 120070>>, <<120075, 120076>>, <<120085, 120085>>,
   <<120093, 120093>>, <<120122, 120122>>, <<120127, 120127>>, <<120133, 120133>>,
   <<120135, 120137>>, <<120145, 120145>>, <<120486, 120487>>, <<120780, 120781>>,
   <<121484, 121498>>, <<121504, 121504>>, <<121520, 122623>>, <<122655, 122660>>,
   <<122667, 122879>>, <<122887, 122887>>, <<122905, 122906>>, <<122914, 122914>>,
   <<122917, 122917>>, <<122923, 122927>>, <<122990, 123022>>, <<123024, 123135>>,
   <<123181, 123183>>, <<123198, 123199>>, <<123210, 123213>>, <<123216, 123535>>,
   <<123567, 123583>>, <<123642, 123646>>, <<123648, 124111>>, <<124154, 124895>>,
   <<124903, 124903>>, <<124908, 124908>>, <<124911, 124911>>, <<124927, 124927>>,
   <<125125, 125126>>, <<125143, 125183>>, <<125260, 125263>>, <<125274, 125277>>,
   <<125280, 126064>>, <<126133, 126208>>, <<126270, 126463>>, <<126468, 126468>>,
   <<126496, 126496>>, <<126499, 126499>>, <<126501, 126502>>, <<126504, 126504>>,
   <<126515, 126515>>, <<126520, 126520>>, <<126522, 126522>>, <<126524, 126529>>,
   <<126531, 126534>>, <<126536, 126536>>, <<126538, 126538>>, <<126540, 126540>>,
   <<126544, 126544>>, <<126547, 126547>>, <<126549, 126550>>, <<126552, 126552>>,
   <<126554, 126554>>, <<126556, 126556>>, <<126558, 126558>>, <<126560, 126560>>,
   <<126563, 126563>>, <<126565, 126566>>, <<126571, 126571>>, <<126579, 126579>>,
   <<126584, 126584>>, <<126589, 126589>>, <<126591, 126591>>, <<126602, 126602>>,
   <<126620, 126624>>, <<126628, 126628>>, <<126634, 126634>>, <<126652, 126703>>,
   <<126706, 126975>>, <<127020, 127023>>, <<127124, 127135>>, <<127151, 127152>>,
   <<127168, 127168>>, <<127184, 127184>>, <<127222, 127231>>, <<127406, 127461>>,
   <<127491, 127503>>, <<127548, 127551>>, <<127561, 127567>>, <<127570, 127583>>,
   <<127590, 127743>>, <<128728, 128731>>, <<128749, 128751>>, <<128765, 128767>>,
   <<128887, 128890>>, <<128986, 128991>>, <<129004, 129007>>, <<129009, 129023>>,
   <<129036, 129039>>, <<129096, 129103>>, <<129114, 129119>>, <<129160, 129167>>,
   <<129198, 129199>>, <<129202, 129279>>, <<129620, 129631>>, <<129646, 129647>>,
   <<129661, 129663>>, <<129673, 129679>>, <<129726, 129726>>, <<129734, 129741>>,
   <<129756, 129759>>, <<129769, 129775>>, <<129785, 129791>>, <<129939, 129939>>,
   <<129995, 130031>>, <<130042, 131071>>, <<173792, 173823>>, <<177978, 177983>>,
   <<178206, 178207>>, <<183970, 183983>>, <<191457, 194559>>, <<195102, 196607>>,
   <<201547, 201551>>, <<205744, 917759>>, <<918000, 1114111>>
  }

\* the ranges of code points that are letters, marks, numbers, punctuation
\* or symbols in Unicode 15.0.0 and unassigned in Unicode 13.0.0
AssignedAfter13 ==
  {
   <<1565, 1565>>, <<2160, 2190>>, <<2200, 2207>>, <<2229, 2229>>, <<2248, 2258>>,
   <<3132, 3132>>, <<3165, 3165>>, <<3293, 3293>>, <<3315, 3315>>, <<3790, 3790>>,
   <<5901, 5901>>, <<5909, 5909>>, <<5919, 5919>>, <<6159, 6159>>, <<6849, 6862>>,
   <<6988, 6988>>, <<7037, 7038>>, <<7674, 7674>>, <<8384, 8384>>, <<11311, 11311>>,
   <<11359, 11359>>, <<11859, 11869>>, <<40957, 40959>>, <<42944, 42945>>, <<42960, 42961>>,
   <<42963, 42963>>, <<42965, 42969>>, <<42994, 42996>>, <<64450, 64450>>, <<64832, 64847>>,
   <<64975, 64975>>, <<65022, 65023>>, <<66928, 66938>>, <<66940, 66954>>, <<66956, 66962>>,
   <<66964, 66965>>, <<66967, 66977>>, <<66979, 66993>>, <<66995, 67001>>, <<67003, 67004>>,
   <<67456, 67461>>, <<67463, 67504>>, <<67506, 67514>>, <<69373, 69375>>, <<69488, 69513>>,
   <<69744, 69749>>, <<69826, 69826>>, <<70207, 70209>>, <<71353, 71353>>, <<71488, 71494>>,
   <<72368, 72383>>, <<72448, 72457>>, <<73472, 73488>>, <<73490, 73530>>, <<73534, 73561>>,
   <<77712, 77810>>, <<78895, 78895>>, <<78912, 78933>>, <<92784, 92862>>, <<92864, 92873>>,
   <<110576, 110579>>, <<110581, 110587>>, <<110589, 110590>>, <<110879, 110882>>,
   <<110898, 110898>>, <<110933, 110933>>, <<118528, 118573>>, <<118576, 118598>>,
   <<118608, 118723>>, <<119273, 119274>>, <<119488, 119507>>, <<122624, 122654>>,
   <<122661, 122666>>, <<122928, 122989>>, <<123023, 123023>>, <<123536, 123566>>,
   <<124112, 124153>>, <<124896, 124902>>, <<124904, 124907>>, <<124909, 124910>>,
   <<124912, 124926>>, <<128732, 128735>>, <<128884, 128886>>, <<128891, 128895>>,
   <<128985, 128985>>, <<129008, 129008>>, <<129401, 129401>>, <<129484, 129484>>,
   <<129653, 129655>>, <<129659, 129660>>, <<129671, 129672>>, <<129705, 129711>>,
   <<129719, 129725>>, <<129727, 129727>>, <<129731, 129733>>, <<129742, 129743>>,
   <<129751, 129755>>, <<129760, 129768>>, <<129776, 129784>>, <<173790, 173791>>,
   <<177973, 177977>>, <<201552, 205743>>
  }

\* the table indexed by block of BlockSize code points: the ranges that
\* meet the block (the code searches its sorted tables by bisection)
BlockSize == 1024
NotPrintByBlock ==
  [b \in 0..(1114111 \div BlockSize) |->
     {p \in NotPrintRanges : p[1] <= b * BlockSize + (BlockSize - 1) /\ b * BlockSize <= p[2]}]

\* the Unicode version of the tables the build's strconv carries
UnicodeVersion == IF toolchain = "go1.21" THEN 15 ELSE 13

\* strconv.IsPrint(r) of the build
IsPrint(r) ==
  IF r <= 255
  THEN (32 <= r /\ r <= 126) \/ (161 <= r /\ r # 173)
  ELSE /\ ~\E p \in NotPrintByBlock[r \div BlockSize] : p[1] <= r /\ r <= p[2]
       /\ UnicodeVersion < 15 => ~\E p \in AssignedAfter13 : p[1] <= r /\ r <= p[2]

\* whether the build's strconv writes U+007F as \x7f (from Go 1.19) or as
\* \u007f
DelAsByte == toolchain # "go1.16"

\* utf8.ValidRune(r)
ValidRune(r) == (0 <= r /\ r < 55296) \/ (57343 < r /\ r <= 1114111)

LowerHex == Str(<<"0", "1", "2", "3", "4", "5", "6", "7", "8", "9", "a", "b", "c", "d", "e", "f">>)
HexDigit(d) == LowerHex[d + 1]

\* the w lowest hexadecimal digits of n, most significant first
RECURSIVE Hex(_, _)
Hex(n, w) == IF w = 0 THEN <<>> ELSE Append(Hex(n \div 16, w - 1), HexDigit(n % 16))

\* the characters and the two-character escapes strconv.Quote writes
DoubleQuote == ASCII["\""]
Backslash == ASCII["\\"]
EscapeA == Str(<<"\\", "a">>)
EscapeB == Str(<<"\\", "b">>)
EscapeF == Str(<<"\\", "f">>)
EscapeN == Str(<<"\\", "n">>)
EscapeR == Str(<<"\\", "r">>)
EscapeT == Str(<<"\\", "t">>)
EscapeV == Str(<<"\\", "v">>)
EscapeX == Str(<<"\\", "x">>)
EscapeU == Str(<<"\\", "u">>)
EscapeBigU == Str(<<"\\", "U">>)

\* fmt's %q of one character: strconv.Quote's escaping of a rune, or of an
\* invalid byte
QuoteChar(c) ==
  IF c < 0 THEN EscapeX \o Hex(-c, 2)
  ELSE IF c = DoubleQuote \/ c = Backslash THEN <<Backslash, c>>
  ELSE IF IsPrint(c) THEN <<c>>
  ELSE CASE c = 7 -> EscapeA
         [] c = 8 -> EscapeB
         [] c = 12 -> EscapeF
         [] c = 10 -> EscapeN
         [] c = 13 -> EscapeR
         [] c = 9 -> EscapeT
         [] c = 11 -> EscapeV
         [] OTHER ->
              IF c < 32 \/ (c = 127 /\ DelAsByte) THEN EscapeX \o Hex(c, 2)
              ELSE IF ~ValidRune(c) THEN EscapeU \o Hex(65533, 4)
              ELSE IF c < 65536 THEN EscapeU \o Hex(c, 4)
              ELSE EscapeBigU \o Hex(c, 8)

\* variant: the parameter formatted with %s
QuotePlain(param) == param

\* fmt.Sprintf("%q", param)
Quote(param) == <<DoubleQuote>> \o Concat([i \in 1..Len(param) |-> QuoteChar(param[i])]) \o <<DoubleQuote>>

\* ---------------------------------------------------------------- call stack

PkgPath == Str(<<"g", "i", "t", "h", "u", "b", ".", "c", "o", "m", "/", "s", "b", "u", "n", "c", "e", "/", "o", "t", "e", "l", "w", "r", "a", "p", ".">>)
SrcFile == Str(<<"o", "t", "e", "l", "w", "r", "a", "p", ".", "g", "o">>)
Unknown == Str(<<"u", "n", "k", "n", "o", "w", "n">>)

Frame(fn, file, line) == [fn |-> fn, file |-> file, line |-> line]

callerFrame == Frame(PkgPath \o Str(<<"c", "a", "l", "l", "e", "r">>), SrcFile, 124)
startFrame == Frame(PkgPath \o Str(<<"s", "t", "a", "r", "t">>), SrcFile, 103)

Entries == {"StartInternal", "StartClient", "StartConsumer", "StartProducer", "StartServer"}

\* the frame of each entry point, at its call of start
EntryFrames ==
  [entry \in Entries |->
  CASE entry = "StartInternal" -> Frame(PkgPath \o Str(<<"S", "t", "a", "r", "t", "I", "n", "t", "e", "r", "n", "a", "l">>), SrcFile, 76)
    [] entry = "StartClient" -> Frame(PkgPath \o Str(<<"S", "t", "a", "r", "t", "C", "l", "i", "e", "n", "t">>), SrcFile, 81)
    [] entry = "StartConsumer" -> Frame(PkgPath \o Str(<<"S", "t", "a", "r", "t", "C", "o", "n", "s", "u", "m", "e", "r">>), SrcFile, 87)
    [] entry = "StartProducer" -> Frame(PkgPath \o Str(<<"S", "t", "a", "r", "t", "P", "r", "o", "d", "u", "c", "e", "r">>), SrcFile, 93)
    [] entry = "StartServer" -> Frame(PkgPath \o Str(<<"S", "t", "a", "r", "t", "S", "e", "r", "v", "e", "r">>), SrcFile, 99)]

EntryFrame(entry) == EntryFrames[entry]

\* variant: StartConsumer and StartProducer pass each other's role
KindOfSwapped(entry) ==
  CASE entry = "StartInternal" -> "internal"
    [] entry = "StartClient" -> "client"
    [] entry = "StartConsumer" -> "producer"
    [] entry = "StartProducer" -> "consumer"
    [] entry = "StartServer" -> "server"

\* the role each entry point passes to start
KindOf(entry) ==
  CASE entry = "StartInternal" -> "internal"
    [] entry = "StartClient" -> "client"
    [] entry = "StartConsumer" -> "consumer"
    [] entry = "StartProducer" -> "producer"
    [] entry = "StartServer" -> "server"

\* runtime.Caller(n) seen from the function whose frame is stack[1]: frame n
\* frames up, ok = FALSE when the stack is not that deep.
runtimeCaller(n, stack) ==
  IF n + 1 <= Len(stack)
  THEN [ok |-> TRUE, frame |-> stack[n + 1]]
  ELSE [ok |-> FALSE, frame |-> Frame(<<>>, <<>>, 0)]

\* variant: the ok result of runtime.Caller ignored
callerUnchecked(n, stack) ==
  LET r == runtimeCaller(n, <<callerFrame>> \o stack)
      parts == Split(r.frame.fn, ASCII["/"])
  IN [File |-> r.frame.file, Line |-> r.frame.line, Func |-> parts[Len(parts)]]

\* caller(n), called with `stack` beneath it
caller(n, stack) ==
  LET r == runtimeCaller(n, <<callerFrame>> \o stack) IN
  IF ~r.ok
  THEN [File |-> Unknown, Line |-> 0, Func |-> Unknown]
  ELSE LET parts == Split(r.frame.fn, ASCII["/"]) IN
       [File |-> r.frame.file, Line |-> r.frame.line, Func |-> parts[Len(parts)]]

\* ---------------------------------------------------------------- provider

Ref(tag, id) == [tag |-> tag, id |-> id]
NilRef == Ref("nil", 0)              \* a nil trace.Span
OtelNoop == Ref("noop", 0)           \* the trace package's own no-op span
NonRecording == Ref("nonrecording", 0) \* the span wrapping a remote span context

SC(trace, sid, sampled) == [trace |-> trace, sid |-> sid, sampled |-> sampled]
NoSC == SC(0, 0, FALSE)
IsValid(sc) == sc.trace # 0 /\ sc.sid # 0

Ctx(span, sc) == [span |-> span, sc |-> sc]
Background == Ctx(NilRef, NoSC)

\* the trace identity a context carries
Identity(ctx) == ctx.sc

\* trace.SpanFromContext(ctx)
traceSpanFromContext(ctx) == IF ctx.span = NilRef THEN OtelNoop ELSE ctx.span

\* provider.Start(ctx, name, trace.WithSpanKind(kind)) as span number id
providerStart(ctx, name, kind, id) ==
  LET sc == SC(IF IsValid(ctx.sc) THEN ctx.sc.trace ELSE id, id, TRUE) IN
  [ctx |-> Ctx(Ref("provider", id), sc),
   span |-> Ref("provider", id),
   rec |-> [name |-> name, kind |-> kind, attrs |-> <<>>, parent |-> ctx.sc]]

\* ---------------------------------------------------------------- span handle

noopSpan == [noop |-> TRUE, span |-> NilRef]

\* variant: the span left out of the handle
newSpanEmpty(span) == [noop |-> FALSE, span |-> NilRef]

newSpan(span) == [noop |-> FALSE, span |-> span]

SpanFromContext(ctx) == newSpan(traceSpanFromContext(ctx))

ProviderCall(span, op, arg) == [span |-> span, op |-> op, arg |-> arg]

\* variant: AddEvent without the noop check
AddEventUnguarded(s, name) == <<ProviderCall(s.span, "AddEvent", name)>>

\* variant: End that never reaches the provider span
EndSwallowed(s) == <<>>

\* the provider calls each method makes on receiver s
AddEvent(s, name) == IF s.noop THEN <<>> ELSE <<ProviderCall(s.span, "AddEvent", name)>>
End(s) == IF s.noop THEN <<>> ELSE <<ProviderCall(s.span, "End", "")>>
RecordError(s, err) == IF s.noop THEN <<>> ELSE <<ProviderCall(s.span, "RecordError", err)>>

Method(s, op, arg) ==
  CASE op = "AddEvent" -> AddEvent(s, arg)
    [] op = "End" -> End(s)
    [] op = "RecordError" -> RecordError(s, arg)

\* ---------------------------------------------------------------- start

\* variant: one frame too few skipped
callSiteShallow(stack) == caller(2, <<startFrame>> \o stack)

\* info := caller(3) in start, called with `stack` beneath it
callSite(stack) == caller(3, <<startFrame>> \o stack)

\* the literals of the two format strings in start
OpenParen == Str(<<"(">>)
CloseParen == Str(<<")">>)
CommaSpace == Str(<<",", " ">>)
Colon == Str(<<":">>)

\* start(ctx, kind, params...) called with `stack` beneath it, the provider
\* numbering the new span id
start(ctx, kind, params, stack, id) ==
  LET info == callSite(stack)
      parts == [i \in 1..Len(params) |-> Quote(params[i])]
      name == info.Func \o OpenParen \o Join(parts, CommaSpace) \o CloseParen
      st == providerStart(ctx, name, kind, id)
      attr == [key |-> "file", value |-> info.File \o Colon \o FormatInt(info.Line)]
  IN [ctx |-> st.ctx,
      span |-> newSpan(st.span),
      rec |-> [st.rec EXCEPT !.attrs = Append(@, attr)]]

\* ---------------------------------------------------------------- propagation

EmptyMap == [k \in {} |-> <<>>]

\* carrier.Get: the value under key, the empty string for an absent key
carrierGet(m, key) == IF key \in DOMAIN m THEN m[key] ELSE <<>>

\* variant: Set that stores nothing
carrierSetLost(m, key, value) == m

\* carrier.Set
carrierSet(m, key, value) == [k \in DOMAIN m \cup {key} |-> IF k = key THEN value ELSE m[k]]

\* carrier.Keys, as the set of the keys (the slice's order is the map's)
carrierKeys(m) == DOMAIN m

Propagators == {"none", "tracecontext"}

Digits == {Digit(d) : d \in 0..9}
DigitValue(c) == CHOOSE d \in 0..9 : Digit(d) = c

IsNumber(s) == s # <<>> /\ \A i \in 1..Len(s) : s[i] \in Digits

RECURSIVE ParseInt(_)
ParseInt(s) == IF s = <<>> THEN 0 ELSE ParseInt(SubSeq(s, 1, Len(s) - 1)) * 10 + DigitValue(s[Len(s)])

\* the header value the trace-context propagator writes: version-trace-span-flags
FormatTraceParent(sc) ==
  Join(<<Str(<<"0", "0">>), FormatInt(sc.trace), FormatInt(sc.sid),
         IF sc.sampled THEN Str(<<"0", "1">>) ELSE Str(<<"0", "0">>)>>, Str(<<"-">>))

\* the span context a header value holds, NoSC for a malformed one
ParseTraceParent(v) ==
  LET f == Split(v, ASCII["-"]) IN
  IF Len(f) = 4 /\ f[1] = Str(<<"0", "0">>) /\ IsNumber(f[2]) /\ IsNumber(f[3])
     /\ f[4] \in {Str(<<"0", "0">>), Str(<<"0", "1">>)}
  THEN SC(ParseInt(f[2]), ParseInt(f[3]), f[4] = Str(<<"0", "1">>))
  ELSE NoSC

\* otel.GetTextMapPropagator().Inject(ctx, carrier(index)): the map afterwards
Inject(p, ctx, index) ==
  IF p = "tracecontext" /\ IsValid(ctx.sc)
  THEN carrierSet(index, "traceparent", FormatTraceParent(ctx.sc))
  ELSE index

\* otel.GetTextMapPropagator().Extract(ctx, carrier(index))
Extract(p, ctx, index) ==
  IF p # "tracecontext" THEN ctx
  ELSE LET v == carrierGet(index, "traceparent") IN
       IF v = <<>> THEN ctx
       ELSE LET sc == ParseTraceParent(v) IN
            IF IsValid(sc) THEN Ctx(NonRecording, sc) ELSE ctx

\* Export(ctx) under propagator p
Export(p, ctx) == Inject(p, ctx, EmptyMap)

\* variant: extraction into a fresh context instead of ctx
ImportFresh(p, ctx, index) == Extract(p, Background, index)

\* Import(ctx, index) under propagator p
Import(p, ctx, index) == Extract(p, ctx, index)

\* ---------------------------------------------------------------- inputs

RECURSIVE SeqsUpTo(_, _)
SeqsUpTo(S, n) ==
  IF n = 0 THEN {<<>>}
  ELSE LET shorter == SeqsUpTo(S, n - 1) IN
       shorter \cup {Append(s, x) : s \in shorter, x \in S}

\* parameters: the empty string, a, b, a double quote, a backslash, a TAB,
\* U+0001, U+007F, U+3000 (a space that is no ASCII space), U+061D (assigned
\* in Unicode 14.0.0), U+1F6DC (assigned in Unicode 15.0.0), U+10FFFF, the
\* byte 0xFF (never part of UTF-8), and three strings of several characters:
\* a"b, the four characters ", " between double quotes, and a\n written
\* with a backslash and an n
ParamStrings ==
  {<<>>, <<97>>, <<34>>, <<92>>, <<9>>, <<1>>, <<127>>, <<12288>>, <<1565>>, <<128732>>,
   <<1114111>>, <<-255>>, <<98>>, <<97, 34, 98>>, <<34, 44, 32, 34>>, <<97, 92, 110>>}
ParamLists == SeqsUpTo(ParamStrings, MaxParams)

\* callers of the entry points: main.U, github.com/a/pkg.Work, a function
\* runtime.FuncForPC names with the empty string
FrameU == Frame(Str(<<"m", "a", "i", "n", ".", "U">>), Str(<<"/", "s", "/", "u", ".", "g", "o">>), 7)
FrameWork == Frame(Str(<<"g", "i", "t", "h", "u", "b", ".", "c", "o", "m", "/", "a", "/", "p", "k", "g", ".", "W", "o", "r", "k">>), Str(<<"w", ".", "g", "o">>), 120)
FrameAnon == Frame(<<>>, Str(<<"x", ".", "g", "o">>), 40)

\* the frames beneath an entry point, innermost first; none when the
\* runtime cannot retrieve the entry point's caller
UserStacks == {<<>>, <<FrameU>>, <<FrameWork>>, <<FrameAnon>>, <<FrameWork, FrameU>>, <<FrameU, FrameWork>>}

\* parameter lists for the calls whose call stack varies
\* none, "a", a TAB, "a" and a double quote
StackParams == {<<>>, <<Str(<<"a">>)>>, <<<<9>>>>, <<Str(<<"a">>), Str(<<"\"">>)>>}

TraceIds == {1, 12}
RemoteCtxs == {Ctx(NonRecording, SC(t, s, b)) : t \in TraceIds, s \in TraceIds, b \in BOOLEAN}
PropCtxs == {Background} \cup RemoteCtxs

\* maps a process may receive: what some Export produced, or anything else
ForeignMaps ==
  {EmptyMap,
   [k \in {"traceparent"} |-> Str(<<"x">>)],
   [k \in {"traceparent"} |-> Str(<<"0", "0", "-", "0", "-", "1", "-", "0", "1">>)],
   [k \in {"other"} |-> Str(<<"1">>)]}
ImportMaps == ForeignMaps \cup {Export("tracecontext", c) : c \in PropCtxs}

LifeParams == {<<Str(<<"a">>)>>}
LifeStacks == {<<FrameU>>}
NameStacks == {<<>>, <<FrameU>>, <<FrameWork, FrameU>>}
LifeCtxs == {Background} \cup {made[h].out : h \in {i \in DOMAIN made : made[i].by \in Entries}}
EventNames == {"e"}
Errors == {"err"}

\* ---------------------------------------------------------------- state machine

Made(by, ctx, params, frames, out, span) ==
  [by |-> by, ctx |-> ctx, params |-> params, frames |-> frames, out |-> out, span |-> span]

NoExport == [done |-> FALSE, ctx |-> Background, map |-> EmptyMap]
NoImport == [done |-> FALSE, base |-> Background, map |-> EmptyMap, result |-> Background]

InitWith(tc, p) ==
  /\ toolchain = tc
  /\ propagator = p
  /\ spans = <<>>
  /\ handles = <<noopSpan>>
  /\ made = <<Made("init", Background, <<>>, <<>>, Background, 0)>>
  /\ provLog = <<>>
  /\ calls = <<>>
  /\ panicked = FALSE
  /\ exported = NoExport
  /\ imported = NoImport

\* a build with a current release, no propagator registered
Init == InitWith("go1.21", "none")

\* one call of an entry point from the function whose frame is frames[1]
Starter(entry, ctx, params, frames) ==
  /\ ~panicked
  /\ LET id == Len(spans) + 1
         r == start(ctx, KindOf(entry), params, <<EntryFrame(entry)>> \o frames, id)
     IN /\ spans' = Append(spans, r.rec)
        /\ handles' = Append(handles, r.span)
        /\ made' = Append(made, Made(entry, ctx, params, frames, r.ctx, id))
  /\ UNCHANGED <<toolchain, propagator, provLog, calls, panicked, exported, imported>>

StartInternal(ctx, params, frames) == Starter("StartInternal", ctx, params, frames)
StartClient(ctx, params, frames) == Starter("StartClient", ctx, params, frames)
StartConsumer(ctx, params, frames) == Starter("StartConsumer", ctx, params, frames)
StartProducer(ctx, params, frames) == Starter("StartProducer", ctx, params, frames)
StartServer(ctx, params, frames) == Starter("StartServer", ctx, params, frames)

GetSpanFromContext(ctx) ==
  /\ ~panicked
  /\ handles' = Append(handles, SpanFromContext(ctx))
  /\ made' = Append(made, Made("SpanFromContext", ctx, <<>>, <<>>, ctx, 0))
  /\ UNCHANGED <<toolchain, propagator, spans, provLog, calls, panicked, exported, imported>>

\* a method call on handles[h]; calling a method of a nil trace.Span panics
Invoke(h, op, arg) ==
  /\ ~panicked
  /\ LET out == Method(handles[h], op, arg) IN
     /\ panicked' = (\E i \in 1..Len(out) : out[i].span = NilRef)
     /\ provLog' = provLog \o SelectSeq(out, LAMBDA c : c.span # NilRef)
  /\ calls' = Append(calls, [h |-> h, op |-> op, arg |-> arg])
  /\ UNCHANGED <<toolchain, propagator, spans, handles, made, exported, imported>>

SpanAddEvent(h, name) == Invoke(h, "AddEvent", name)
SpanEnd(h) == Invoke(h, "End", "")
SpanRecordError(h, err) == Invoke(h, "RecordError", err)

DoExport(ctx) ==
  /\ exported' = [done |-> TRUE, ctx |-> ctx, map |-> Export(propagator, ctx)]
  /\ UNCHANGED <<toolchain, propagator, spans, handles, made, provLog, calls, panicked, imported>>

DoImport(ctx, index) ==
  /\ imported' = [done |-> TRUE, base |-> ctx, map |-> index, result |-> Import(propagator, ctx, index)]
  /\ UNCHANGED <<toolchain, propagator, spans, handles, made, provLog, calls, panicked, exported>>

\* the life of handles: starters, SpanFromContext and the span methods
Next ==
  \/ /\ Len(handles) <= MaxHandles
     /\ \E ctx \in LifeCtxs, params \in LifeParams, frames \in LifeStacks :
          \/ StartInternal(ctx, params, frames)
          \/ StartClient(ctx, params, frames)
          \/ StartConsumer(ctx, params, frames)
          \/ StartProducer(ctx, params, frames)
          \/ StartServer(ctx, params, frames)
  \/ /\ Len(handles) <= MaxHandles
     /\ \E ctx \in LifeCtxs : GetSpanFromContext(ctx)
  \/ /\ Len(calls) < MaxCalls
     /\ \E h \in DOMAIN handles :
          \/ \E name \in EventNames : SpanAddEvent(h, name)
          \/ SpanEnd(h)
          \/ \E err \in Errors : SpanRecordError(h, err)

Spec == Init /\ [][Next]_vars

\* one entry point applied once, from each calling stack
NextStart ==
  /\ spans = <<>>
  /\ \E params \in StackParams, frames \in UserStacks :
       \/ StartInternal(Background, params, frames)
       \/ StartClient(Background, params, frames)
       \/ StartConsumer(Background, params, frames)
       \/ StartProducer(Background, params, frames)
       \/ StartServer(Background, params, frames)

SpecStart == Init /\ [][NextStart]_vars

\* one entry point applied once, to each parameter list, under each build
InitName == \E tc \in Toolchains : InitWith(tc, "none")

NextName ==
  /\ spans = <<>>
  /\ \E params \in ParamLists, frames \in NameStacks :
       \/ StartInternal(Background, params, frames)
       \/ StartClient(Background, params, frames)
       \/ StartConsumer(Background, params, frames)
       \/ StartProducer(Background, params, frames)
       \/ StartServer(Background, params, frames)

SpecName == InitName /\ [][NextName]_vars

\* Export and Import applied to each context and each map, under each propagator
InitProp == \E p \in Propagators : InitWith("go1.21", p)

NextProp ==
  \/ \E ctx \in PropCtxs : DoExport(ctx)
  \/ \E ctx \in PropCtxs, index \in ImportMaps \cup {exported.map} : DoImport(ctx, index)

SpecProp == InitProp /\ [][NextProp]_vars

\* ---------------------------------------------------------------- properties

StarterHandles == {h \in DOMAIN made : made[h].by \in Entries}
AccessorHandles == {h \in DOMAIN made : made[h].by = "SpanFromContext"}
SpanOf(h) == spans[made[h].span]
StackOf(h) == <<EntryFrame(made[h].by)>> \o made[h].frames
CallsOn(h) == {k \in DOMAIN calls : calls[k].h = h}

\* C1: SpanFromContext on a context that holds no provider span returns the
\* no-op handle (noop set, no provider span), so no method call on that
\* handle calls into the provider.
C1_AccessorReturnsNoopHandle ==
  \A h \in AccessorHandles :
    made[h].ctx.span = NilRef =>
      /\ handles[h] = noopSpan
      /\ \A k \in CallsOn(h) : Method(handles[h], calls[k].op, calls[k].arg) = <<>>

\* C2: a method call on a no-op handle does not panic, invokes no provider
\* span operation and leaves every handle as it was, whatever was called before.
C2_NoopHandleInert ==
  [][(/\ Len(calls') = Len(calls) + 1
      /\ handles[calls'[Len(calls')].h].noop)
     => (/\ provLog' = provLog
         /\ handles' = handles
         /\ ~panicked')]_vars

C2_Witness ==
  /\ Len(calls) >= 2
  /\ \A k \in DOMAIN calls : handles[calls[k].h].noop
  /\ calls[1].op # calls[2].op
  /\ provLog = <<>>
  /\ ~panicked

\* the part of a function's qualified name after its last "/"
RECURSIVE Unqualified(_)
Unqualified(fn) ==
  IF fn = <<>> THEN <<>>
  ELSE IF fn[Len(fn)] = ASCII["/"] THEN <<>>
  ELSE Append(Unqualified(SubSeq(fn, 1, Len(fn) - 1)), fn[Len(fn)])

\* Reading a double-quoted string literal back. Characters are code points:
\* 34 the double quote, 92 the backslash, 10 the newline, 44 32 ", ", 40 and
\* 41 the parentheses.
Unreadable == [ok |-> FALSE, value |-> <<>>]
Read(v) == [ok |-> TRUE, value |-> v]

\* the character a one-letter escape stands for: \a \b \f \n \r \t \v \\ \"
LetterEscapes == [e \in {97, 98, 102, 110, 114, 116, 118, 92, 34} |->
  CASE e = 97 -> 7 [] e = 98 -> 8 [] e = 102 -> 12 [] e = 110 -> 10 [] e = 114 -> 13
    [] e = 116 -> 9 [] e = 118 -> 11 [] e = 92 -> 92 [] e = 34 -> 34]

\* the number a text of hexadecimal digits writes, -1 for any other text
RECURSIVE HexNumber(_)
HexNumber(t) ==
  IF t = <<>> THEN 0
  ELSE LET c == t[Len(t)]
           d == IF 48 <= c /\ c <= 57 THEN c - 48
                ELSE IF 97 <= c /\ c <= 102 THEN c - 87
                ELSE IF 65 <= c /\ c <= 70 THEN c - 55
                ELSE -1
           hi == HexNumber(SubSeq(t, 1, Len(t) - 1))
       IN IF d < 0 \/ hi < 0 THEN -1 ELSE 16 * hi + d

\* the hexadecimal escape of `digits` digits at the head of t (after its
\* two-character introducer), followed by what the rest denotes; an \x
\* escape writes a byte, the others a code point
RECURSIVE Denoted(_)
HexEscape(t, digits) ==
  IF Len(t) < 2 + digits THEN Unreadable
  ELSE LET n == HexNumber(SubSeq(t, 3, 2 + digits))
           c == IF digits = 2 /\ n > 127 THEN -n ELSE n
           rest == Denoted(SubSeq(t, 3 + digits, Len(t)))
       IN IF n < 0 \/ n > 1114111 \/ (55296 <= n /\ n <= 57343) \/ ~rest.ok
          THEN Unreadable
          ELSE Read(<<c>> \o rest.value)

\* the string that the text t between two double quotes denotes; a bare
\* double quote, a bare newline or an unknown escape makes t unreadable
Denoted(t) ==
  IF t = <<>> THEN Read(<<>>)
  ELSE IF t[1] = 34 \/ t[1] = 10 THEN Unreadable
  ELSE IF t[1] # 92
  THEN LET rest == Denoted(Tail(t)) IN
       IF rest.ok THEN Read(<<t[1]>> \o rest.value) ELSE Unreadable
  ELSE IF Len(t) < 2 THEN Unreadable
  ELSE IF t[2] \in DOMAIN LetterEscapes
  THEN LET rest == Denoted(SubSeq(t, 3, Len(t))) IN
       IF rest.ok THEN Read(<<LetterEscapes[t[2]]>> \o rest.value) ELSE Unreadable
  ELSE IF t[2] = 120 THEN HexEscape(t, 2)
  ELSE IF t[2] = 117 THEN HexEscape(t, 4)
  ELSE IF t[2] = 85 THEN HexEscape(t, 8)
  ELSE Unreadable

\* the position at or after i of the double quote that closes a literal, 0
\* when there is none; a character after a backslash closes nothing
RECURSIVE ClosingQuote(_, _)
ClosingQuote(t, i) ==
  IF i > Len(t) THEN 0
  ELSE IF t[i] = 34 THEN i
  ELSE IF t[i] = 92 THEN ClosingQuote(t, i + 2)
  ELSE ClosingQuote(t, i + 1)

\* the strings denoted by a text of one or more double-quoted literals
\* separated by ", "
RECURSIVE ReadList(_)
ReadList(t) ==
  IF t = <<>> \/ t[1] # 34 THEN Unreadable
  ELSE LET e == ClosingQuote(t, 2) IN
       IF e = 0 THEN Unreadable
       ELSE LET d == Denoted(SubSeq(t, 2, e - 1))
                after == SubSeq(t, e + 1, Len(t))
            IN IF ~d.ok THEN Unreadable
               ELSE IF after = <<>> THEN Read(<<d.value>>)
               ELSE IF Len(after) < 3 \/ after[1] # 44 \/ after[2] # 32 THEN Unreadable
               ELSE LET more == ReadList(SubSeq(after, 3, Len(after))) IN
                    IF more.ok THEN Read(<<d.value>> \o more.value) ELSE Unreadable

\* a string of printable ASCII characters other than the double quote and
\* the backslash: each stands for itself in a literal
IsPlain(p) == \A i \in DOMAIN p : 32 <= p[i] /\ p[i] <= 126 /\ p[i] # 34 /\ p[i] # 92

\* the parameters, each between double quotes as it is, joined by ", "
RECURSIVE PlainList(_)
PlainList(P) ==
  IF P = <<>> THEN <<>>
  ELSE IF Len(P) = 1 THEN <<34>> \o P[1] \o <<34>>
  ELSE PlainList(SubSeq(P, 1, Len(P) - 1)) \o <<44, 32, 34>> \o P[Len(P)] \o <<34>>

\* the function name of a Starter call's call site: of the frame that called
\* the entry point, the part after the last "/"; "unknown" without that frame
CallSiteName(h) ==
  IF made[h].frames = <<>>
  THEN <<117, 110, 107, 110, 111, 119, 110>>
  ELSE Unqualified(made[h].frames[1].fn)

\* C3: the span name is the call site's function name F, "(", one
\* double-quoted string literal per parameter, in the parameters' order and
\* joined by ", ", and ")": each literal reads back as its parameter, and a
\* parameter of plain characters stands between its quotes as it is; with no
\* parameters the name is F followed by "()". This holds under every build.
C3_SpanName ==
  \A h \in StarterHandles :
    LET F == CallSiteName(h)
        P == made[h].params
        name == SpanOf(h).name
        n == Len(F)
    IN /\ Len(name) >= n + 2
       /\ SubSeq(name, 1, n + 1) = F \o <<40>>
       /\ name[Len(name)] = 41
       /\ LET body == SubSeq(name, n + 2, Len(name) - 1) IN
            /\ P = <<>> => body = <<>>
            /\ P # <<>> => ReadList(body) = Read(P)
            /\ (\A i \in DOMAIN P : IsPlain(P[i])) => body = PlainList(P)

\* U+007F and the text ", " between double quotes, under a build that writes
\* U+007F as \u007f
C3_Witness ==
  \E h \in StarterHandles :
    /\ toolchain = "go1.16"
    /\ made[h].frames = <<FrameWork, FrameU>>
    /\ made[h].params = <<<<127>>, <<34, 44, 32, 34>>>>
    /\ SpanOf(h).name =
         Str(<<"p", "k", "g", ".", "W", "o", "r", "k", "(", "\"", "\\", "u", "0", "0", "7", "f", "\"",
               ",", " ", "\"", "\\", "\"", ",", " ", "\\", "\"", "\"", ")">>)

\* the role each entry point is documented to give its span
RoleOf(entry) ==
  CASE entry = "StartInternal" -> "internal"
    [] entry = "StartClient" -> "client"
    [] entry = "StartServer" -> "server"
    [] entry = "StartProducer" -> "producer"
    [] entry = "StartConsumer" -> "consumer"

\* C4: every entry point call starts exactly one provider span, of the
\* entry point's own kind, and two calls with the same context, parameters
\* and call site differ in nothing but the kind.
C4_OneSpanOfOwnKind ==
  /\ Len(spans) = Cardinality(StarterHandles)
  /\ \A h \in StarterHandles : SpanOf(h).kind = RoleOf(made[h].by)
  /\ \A g, h \in StarterHandles :
       g # h => made[g].span # made[h].span
  /\ \A g, h \in StarterHandles :
       (/\ made[g].ctx = made[h].ctx
        /\ made[g].params = made[h].params
        /\ made[g].frames = made[h].frames)
       => /\ SpanOf(g).name = SpanOf(h).name
          /\ SpanOf(g).attrs = SpanOf(h).attrs
          /\ SpanOf(g).parent = SpanOf(h).parent
          /\ handles[g].noop = handles[h].noop
          /\ handles[g].span.tag = handles[h].span.tag
          /\ made[g].out.span.tag = made[h].out.span.tag
          /\ IsValid(made[g].out.sc) = IsValid(made[h].out.sc)

C4_Witness ==
  \E g, h \in StarterHandles :
    /\ made[g].by = "StartConsumer"
    /\ made[h].by = "StartProducer"
    /\ made[g].ctx = made[h].ctx
    /\ made[g].params = made[h].params
    /\ made[g].frames = made[h].frames
    /\ SpanOf(g).kind = "consumer"
    /\ SpanOf(h).kind = "producer"

\* C5: under a propagator whose Extract inverts its Inject, importing the map
\* that Export made of a context with trace identity T gives, whatever the
\* base context, a context with trace identity T.
C5_RoundTrip ==
  (/\ propagator = "tracecontext"
   /\ exported.done
   /\ imported.done
   /\ imported.map = exported.map
   /\ IsValid(Identity(exported.ctx)))
  => Identity(imported.result) = Identity(exported.ctx)

C5_Witness ==
  /\ propagator = "tracecontext"
  /\ exported.done
  /\ imported.done
  /\ imported.map = exported.map
  /\ Identity(exported.ctx) = SC(12, 1, TRUE)
  /\ Identity(imported.base) = SC(1, 12, FALSE)
  /\ Identity(imported.result) = SC(12, 1, TRUE)

\* C6: Export of a context without trace identity returns an empty map, and
\* Import of an empty map returns a context with the base context's trace
\* identity.
C6_AbsencePreserved ==
  /\ (exported.done /\ ~IsValid(Identity(exported.ctx))) => exported.map = EmptyMap
  /\ (imported.done /\ imported.map = EmptyMap)
       => Identity(imported.result) = Identity(imported.base)

C6_Witness ==
  /\ propagator = "tracecontext"
  /\ exported.done
  /\ exported.ctx = Background
  /\ exported.map = EmptyMap
  /\ imported.done
  /\ imported.map = EmptyMap
  /\ IsValid(Identity(imported.base))
  /\ imported.result = imported.base

\* C7: when the entry point's caller frame cannot be retrieved, the call site
\* is file "unknown", function "unknown", line 0, and the entry point still
\* returns a context and a handle for a started span.
C7_SentinelCallSite ==
  \A h \in StarterHandles :
    made[h].frames = <<>> =>
      /\ callSite(StackOf(h)) = [File |-> Unknown, Line |-> 0, Func |-> Unknown]
      /\ SubSeq(SpanOf(h).name, 1, Len(Unknown) + 1) = Unknown \o Str(<<"(">>)
      /\ SpanOf(h).attrs = <<[key |-> "file", value |-> Unknown \o Str(<<":", "0">>)]>>
      /\ handles[h] = [noop |-> FALSE, span |-> Ref("provider", made[h].span)]
      /\ made[h].out.span = Ref("provider", made[h].span)
      /\ ~panicked

C7_Witness ==
  \E h \in StarterHandles :
    /\ made[h].frames = <<>>
    /\ made[h].params = <<Str(<<"a">>)>>
    /\ SpanOf(h).name = Unknown \o Str(<<"(", "\"", "a", "\"", ")">>)

\* C8: the function name in the span name and the "file:line" value of the
\* single "file" attribute are those of the frame that called the entry point.
C8_CallSiteIsCaller ==
  \A h \in StarterHandles :
    made[h].frames # <<>> =>
      LET U == made[h].frames[1]
          F == Unqualified(U.fn)
          name == SpanOf(h).name
          attrs == SpanOf(h).attrs
      IN /\ Len(name) > Len(F)
         /\ SubSeq(name, 1, Len(F) + 1) = F \o Str(<<"(">>)
         /\ Len(attrs) = 1
         /\ attrs[1].key = "file"
         /\ LET v == attrs[1].value
                n == Len(U.file)
            IN /\ Len(v) > n + 1
               /\ SubSeq(v, 1, n + 1) = U.file \o Str(<<":">>)
               /\ IsNumber(SubSeq(v, n + 2, Len(v)))
               /\ ParseInt(SubSeq(v, n + 2, Len(v))) = U.line

C8_Witness ==
  \E h \in StarterHandles :
    /\ made[h].by = "StartServer"
    /\ made[h].frames = <<FrameWork, FrameU>>
    /\ made[h].params = <<>>
    /\ SpanOf(h).name = Str(<<"p", "k", "g", ".", "W", "o", "r", "k", "(", ")">>)
    /\ SpanOf(h).attrs[1].value = Str(<<"w", ".", "g", "o", ":", "1", "2", "0">>)

\* C9: every handle an entry point or SpanFromContext returned is, after any
\* calls made on it, either no-op with no provider span or not no-op with a
\* provider span; none has the flag clear and no provider span.
C9_HandleWellFormed ==
  \A h \in StarterHandles \cup AccessorHandles :
    \/ handles[h].noop /\ handles[h].span = NilRef
    \/ ~handles[h].noop /\ handles[h].span # NilRef

C9_Witness ==
  \E g \in StarterHandles, h \in AccessorHandles :
    /\ made[h].ctx.span = NilRef
    /\ CallsOn(g) # {}
    /\ CallsOn(h) # {}
    /\ ~handles[g].noop
    /\ ~handles[h].noop

\* the provider calls that the calls made so far on live handles amount to
Forwarded ==
  Concat([k \in DOMAIN calls |->
    IF handles[calls[k].h].noop THEN <<>>
    ELSE <<[span |-> handles[calls[k].h].span, op |-> calls[k].op, arg |-> calls[k].arg]>>])

\* C10: the provider has received every call made on a live handle exactly
\* once and in the order made, calls after an End included.
C10_ForwardedInOrder == provLog = Forwarded

C10_Witness ==
  /\ Len(provLog) = 2
  /\ provLog[1].op = "End"
  /\ provLog[2].span = provLog[1].span
  /\ provLog[1].span.tag = "provider"
  /\ calls[1].h # calls[2].h

====
